---- MODULE Spec2Model ----
(***************************************************************************)
(* A model of OWS::Variant<Ts...> (variant.hpp): a tagged union over a     *)
(* fixed list of alternative types, with a raw buffer m_Raw, a             *)
(* discriminant m_Idx and three per-alternative dispatch tables.           *)
(*                                                                         *)
(* The model follows the lifetime of the objects placed in m_Raw: whether  *)
(* the buffer holds a live object, of which alternative and with which     *)
(* value.  Constructors of alternatives may fail (throw); an exception     *)
(* that leaves a noexcept function calls std::terminate.  Operations on    *)
(* storage that holds no live object of the expected type are undefined    *)
(* behaviour: every outcome (garbage value, crash, silent continuation)    *)
(* is a possible successor.                                                *)
(***************************************************************************)
EXTENDS Integers, Sequences, FiniteSets, TLC

\* ------------------------------------------------------------------ bounds
\* Alternative values range over 0..MaxVal.
MaxVal == 1
Values == 0..MaxVal

\* Template argument lists given to the metafunctions have 1..MaxLen
\* entries; sizes range over 1..MaxSize.
MaxLen == 4
MaxSize == 3

\* The Variant objects of the client code.  Every member function works on
\* one object (this) or two (this, other), so two objects show every
\* interaction, self-assignment included.
Inst == {1, 2}

\* ------------------------------------------------- the alternative set
\* template <typename... Ts>: the alternative set of the instantiation
\* under study, Variant<int, string, double>.
Ts == <<"int", "string", "double">>

\* sizeof...(Ts)
NTs == Len(Ts)

\* std::numeric_limits<unsigned>::max(), taken at the narrowest unsigned the
\* language allows (16 bits): the model checker's integers are 32-bit
\* signed, and only its being outside [0, sizeof...(Ts)) matters.
s_Valueless == 65535

\* --------------------------------------------------- type-list metafunctions
\* std::is_same<R, T>::value
is_same(R, T) == R = T

\* is_any<R, T, Ts...>: R is one of the types of the (nonempty) list.
RECURSIVE is_any(_, _)
is_any(R, list) ==
  IF Len(list) = 1 THEN is_same(R, Head(list))
  ELSE is_same(R, Head(list)) \/ is_any(R, Tail(list))

\* Mutant of is_unique: only the first type is compared with the others.
is_unique_FirstOnly(list) ==
  IF Len(list) = 1 THEN TRUE ELSE ~is_any(Head(list), Tail(list))

\* is_unique<T, Ts...>: no type of the list occurs again later in it.
RECURSIVE is_unique(_)
is_unique(list) ==
  IF Len(list) = 1 THEN TRUE
  ELSE ~is_any(Head(list), Tail(list)) /\ is_unique(Tail(list))

\* IthType<I, T, Ts...>::type
RECURSIVE IthType(_, _)
IthType(I, list) ==
  IF I = 0 THEN Head(list) ELSE IthType(I - 1, Tail(list))

\* Mutant of IFromType: the floor yields I + 1 (positions counted from one).
RECURSIVE IFromType_FromOne(_, _, _)
IFromType_FromOne(I, R, list) ==
  IF Head(list) = R THEN I + 1 ELSE IFromType_FromOne(I + 1, R, Tail(list))

\* IFromType<I, R, T, Ts...>::value; instantiated only where is_any<R, ...>
\* holds (enable_if), so the recursion always meets R.
RECURSIVE IFromType(_, _, _)
IFromType(I, R, list) ==
  IF Head(list) = R THEN I ELSE IFromType(I + 1, R, Tail(list))

\* No specialization or primary template matches the argument list: the
\* instantiation is ill-formed and the program does not compile.
NoInstance == [defined |-> FALSE, s_min |-> 0, s_max |-> 0]

\* CTMM<T, A, B, Cs...>: the primary template takes at least the two values
\* A and B and folds them into one; the specialization CTMM<T, A, B> is the
\* floor.  An argument list of fewer than two values matches neither.
RECURSIVE CTMM(_)
CTMM(list) ==
  IF Len(list) < 2 THEN NoInstance
  ELSE LET A == list[1]
           B == list[2]
           Cs == SubSeq(list, 3, Len(list))
       IN IF Cs = <<>>
          THEN [defined |-> TRUE,
                s_min |-> IF A > B THEN B ELSE A,
                s_max |-> IF A > B THEN A ELSE B]
          ELSE [defined |-> TRUE,
                s_min |-> CTMM(<<CTMM(<<A, B>>).s_min>> \o Cs).s_min,
                s_max |-> CTMM(<<CTMM(<<A, B>>).s_max>> \o Cs).s_max]

\* static constexpr size_t s_RawSize{ CTMM<size_t, sizeof(Ts)...>::s_max }
s_RawSize(sizes) == CTMM(sizes)

\* ------------------------------------------------------------------ state
VARIABLES
  alive,       \* alive[i]: the Variant object i is within its lifetime
  m_Idx,       \* m_Idx[i]: the discriminant of object i
  m_Raw,       \* m_Raw[i]: what the buffer of object i holds
  terminated,  \* the program has ended (std::terminate, or a crash)
  last,        \* the call made last: its arguments, events and outcome
  copied,      \* the source of the copy being followed, as it was before it
  meta         \* the metafunction instantiated last: arguments and result

vars == <<alive, m_Idx, m_Raw, terminated, last, copied, meta>>

\* char m_Raw[s_RawSize]{}: zeroed storage holding no object.
NoObj == [ty |-> "none", val |-> 0, live |-> FALSE]

\* A live object of alternative T with value v in a buffer.
Obj(T, v) == [ty |-> T, val |-> v, live |-> TRUE]

\* What a T&& constructor leaves in its source: a live T whose value is
\* unspecified.  No member of Variant reads it (the source is made
\* valueless), so one value, outside Values, stands for all of them.
MovedFrom(T) == [ty |-> T, val |-> 0 - 1, live |-> TRUE]

\* An event of a call: e is one of
\*   "destroy"        ~T() ran on the live T of the buffer of inst
\*   "destroy_dead"   ~T() ran on a buffer holding no live T (undefined)
\*   "construct"      a T was constructed in the buffer of inst
\*   "construct_fail" the constructor of T threw
\*   "overwrite"      a constructor started on a buffer holding a live
\*                    object whose destructor never ran
\*   "read"           the live T of inst was read as constructor argument
\*   "read_dead"      a buffer holding no live T was read as a T (undefined)
Ev(e, i, T) == [e |-> e, inst |-> i, ty |-> T]

\* The working state of a call in progress.
\* ptr: the buffer a returned reference or pointer names (0: null, none);
\* ret: the value returned (for a reference, what the buffer holds);
\* tbl: the subscripts with which the call has indexed a dispatch table.
St(idx, raw) ==
  [idx |-> idx, raw |-> raw, ev |-> <<>>, out |-> "ok", ptr |-> 0, ret |-> NoObj,
   tbl |-> {}]

\* ------------------------------------------------------------- accessors
\* unsigned index() const noexcept
index(idx, i) == idx[i]

\* bool valueless() const noexcept
valueless(idx, i) == idx[i] = s_Valueless

\* template <typename T> bool holds_alternative() const noexcept
holds_alternative(idx, i, T) ==
  LET typeIdx == IFromType(0, T, Ts) IN typeIdx = idx[i]

\* Mutant of get_if: the buffer whenever any alternative is active.
get_if_AnyActive(idx, i, T) == IF idx[i] # s_Valueless THEN i ELSE 0

\* template <typename T> T* get_if() noexcept: the buffer, or nullptr.
get_if(idx, i, T) ==
  LET typeIdx == IFromType(0, T, Ts) IN
  IF typeIdx = idx[i] THEN i ELSE 0

\* template <size_t I> T* get_if() noexcept
get_if_I(idx, i, I) == IF I = idx[i] THEN i ELSE 0

\* template <typename T> T& get(): throws bad_variant_access on mismatch,
\* else a reference to the buffer.
get(idx, i, T) ==
  LET typeIdx == IFromType(0, T, Ts) IN
  IF typeIdx # idx[i] THEN [out |-> "bad_variant_access", ref |-> 0]
  ELSE [out |-> "ok", ref |-> i]

\* Mutant of get_I: the check against m_Idx is missing.
get_I_Unchecked(idx, i, I) == [out |-> "ok", ref |-> i]

\* template <size_t I> T& get()
get_I(idx, i, I) ==
  IF I # idx[i] THEN [out |-> "bad_variant_access", ref |-> 0]
  ELSE [out |-> "ok", ref |-> i]

\* What a reference or pointer returned by an accessor names.
Deref(raw, p) == IF p = 0 THEN NoObj ELSE raw[p]

\* --------------------------------------------------------- dispatch tables
\* Mutant of s_Destructors: row k is instantiated with the next alternative.
s_Destructors_Shifted == [k \in 0..(NTs - 1) |-> IthType((k + 1) % NTs, Ts)]

\* s_Destructors[]{ TDestructor<Ts>... }: row k is instantiated with Ts[k].
s_Destructors == [k \in 0..(NTs - 1) |-> IthType(k, Ts)]

\* s_CopyAssigns[]{ TAssign<Ts const&>... }
s_CopyAssigns == [k \in 0..(NTs - 1) |-> [ty |-> IthType(k, Ts), move |-> FALSE]]

\* s_MoveAssigns[]{ TAssign<Ts&&>... }
s_MoveAssigns == [k \in 0..(NTs - 1) |-> [ty |-> IthType(k, Ts), move |-> TRUE]]

\* TDestructor<T>(thisPtr) noexcept: thisPtr->get<T>().~T().  A throw of
\* get<T>() inside the noexcept function terminates.  ~T() on a buffer
\* without a live T is undefined: it goes unnoticed or crashes.
TDestructor(st, i, T) ==
  LET g == get(st.idx, i, T) IN
  IF g.out # "ok" THEN
    {[st EXCEPT !.ev = Append(@, Ev("bad_variant_access", i, T)), !.out = "terminate"]}
  ELSE IF st.raw[i].live /\ st.raw[i].ty = T THEN
    {[st EXCEPT !.raw[i] = NoObj, !.ev = Append(@, Ev("destroy", i, T))]}
  ELSE
    {[st EXCEPT !.raw[i] = NoObj, !.ev = Append(@, Ev("destroy_dead", i, T)), !.out = o] :
       o \in {"ok", "crash"}}

\* s_Destructors[m_Idx](this): the table is subscripted with the
\* discriminant of object i.  A subscript outside the table reads past the
\* array and calls through what it finds there (undefined).
DispatchDestructor(st, i) ==
  LET k == st.idx[i]
      s0 == [st EXCEPT !.tbl = @ \cup {k}]
  IN IF k \in DOMAIN s_Destructors
     THEN TDestructor(s0, i, s_Destructors[k])
     ELSE {[s0 EXCEPT !.out = o] : o \in {"ok", "crash"}}

\* A constructor argument: a value of the caller, or a reference to the
\* buffer of another Variant (const& for a copy, && for a move).
ArgVal(v) == [kind |-> "val", v |-> v, inst |-> 0, move |-> FALSE]
ArgRef(j, mv) == [kind |-> "ref", v |-> 0, inst |-> j, move |-> mv]

\* ::new (m_Raw) T{ args... }: the placement construction of emplace.
\* The argument is read when the constructor runs.  fail: the constructor
\* throws.  A moved-from source stays a live T (see MovedFrom).
PlacementNew(st, i, T, arg, fail) ==
  LET s0 == IF st.raw[i].live
            THEN [st EXCEPT !.raw[i] = NoObj,
                            !.ev = Append(@, Ev("overwrite", i, st.raw[i].ty))]
            ELSE st
  IN
  IF fail THEN
    {[s0 EXCEPT !.ev = Append(@, Ev("construct_fail", i, T)), !.out = "ctor_exception"]}
  ELSE IF arg.kind = "val" THEN
    {[s0 EXCEPT !.raw[i] = Obj(T, arg.v), !.ev = Append(@, Ev("construct", i, T)),
                !.ptr = i, !.ret = Obj(T, arg.v)]}
  ELSE
    LET j == arg.inst
        src == s0.raw[j]
    IN
    IF src.live /\ src.ty = T THEN
      LET s1 == [s0 EXCEPT !.raw[i] = Obj(T, src.val),
                           !.ev = @ \o <<Ev("read", j, T), Ev("construct", i, T)>>,
                           !.ptr = i, !.ret = Obj(T, src.val)]
      IN IF arg.move THEN {[s1 EXCEPT !.raw[j] = MovedFrom(T)]}
         ELSE {s1}
    ELSE
      {[s0 EXCEPT !.raw[i] = Obj(T, w),
                  !.ev = @ \o <<Ev("read_dead", j, T), Ev("construct", i, T)>>,
                  !.ptr = i, !.ret = Obj(T, w)] : w \in Values}
      \cup
      {[s0 EXCEPT !.ev = Append(@, Ev("read_dead", j, T)), !.out = "crash"]}

\* Mutant of emplace: m_Idx is not updated.
emplace_StaleIdx(st, i, T, arg, fail) ==
  LET S1 == IF s_Valueless # st.idx[i]
            THEN DispatchDestructor(st, i)
            ELSE {st}
  IN UNION { IF s1.out # "ok" THEN {s1} ELSE PlacementNew(s1, i, T, arg, fail) : s1 \in S1 }

\* Mutant of emplace: the old value is not destroyed.
emplace_NoDestroy(st, i, T, arg, fail) ==
  PlacementNew([st EXCEPT !.idx[i] = IFromType(0, T, Ts)], i, T, arg, fail)

\* template <typename T, typename... Args> T& emplace(Args&&... args)
emplace(st, i, T, arg, fail) ==
  LET S1 == IF s_Valueless # st.idx[i]
            THEN DispatchDestructor(st, i)
            ELSE {st}
  IN UNION { IF s1.out # "ok" THEN {s1}
             ELSE PlacementNew([s1 EXCEPT !.idx[i] = IFromType(0, T, Ts)], i, T, arg, fail)
             : s1 \in S1 }

\* TAssign<T>(lhsPtr, rhsPtr): lhsPtr->emplace<remove_cvref<T>>(
\* reinterpret_cast<T>(rhsPtr->m_Raw)); row is the table entry, i.e. T.
TAssign(st, lhs, rhs, row, fail) ==
  emplace(st, lhs, row.ty, ArgRef(rhs, row.move), fail)

\* s_CopyAssigns[other.m_Idx](this, &other) and
\* s_MoveAssigns[other.m_Idx](this, &other): the table is subscripted with
\* the discriminant of the source.
DispatchAssign(st, table, lhs, rhs, fail) ==
  LET k == st.idx[rhs]
      s0 == [st EXCEPT !.tbl = @ \cup {k}]
  IN IF k \in DOMAIN table
     THEN TAssign(s0, lhs, rhs, table[k], fail)
     ELSE {[s0 EXCEPT !.out = o] : o \in {"ok", "crash"}}

\* An exception leaving a noexcept function calls std::terminate.
NoExcept(S) ==
  {IF s.out \in {"ctor_exception", "bad_variant_access"}
   THEN [s EXCEPT !.out = "terminate"] ELSE s : s \in S}

\* Mutant of Destructor: the test for the valueless state is missing.
Destructor_Unguarded(st, i) ==
  NoExcept(DispatchDestructor(st, i))

\* ~Variant() noexcept
Destructor(st, i) ==
  IF s_Valueless = st.idx[i] THEN {st}
  ELSE NoExcept(DispatchDestructor(st, i))

\* The end of the lifetime of object i: its members are gone.  A buffer
\* that still holds a live object is released without its destructor.
Release(st, i) ==
  [st EXCEPT !.idx[i] = s_Valueless, !.raw[i] = NoObj,
             !.ev = IF st.raw[i].live THEN Append(@, Ev("overwrite", i, st.raw[i].ty)) ELSE @]

\* A delegating constructor (": Variant{}") whose body exits with an
\* exception: the destructor of the object runs, then the exception goes on.
UnwindCtor(S, i) ==
  UNION { IF s.out = "ctor_exception"
          THEN {[Release(d, i) EXCEPT !.out = IF d.out = "ok" THEN "ctor_exception" ELSE d.out] :
                  d \in Destructor([s EXCEPT !.out = "ok"], i)}
          ELSE {s} : s \in S }

\* ------------------------------------------------- the member functions
\* Mutant of DefaultCtor: m_Idx{} (zero) instead of m_Idx{ s_Valueless }.
DefaultCtor_ZeroIdx(st, i) ==
  {[st EXCEPT !.idx[i] = 0, !.raw[i] = NoObj]}

\* Variant() = default: m_Raw{}, m_Idx{ s_Valueless }.
DefaultCtor(st, i) ==
  {[st EXCEPT !.idx[i] = s_Valueless, !.raw[i] = NoObj]}

\* explicit Variant(T&& variant) : Variant{} { emplace<T>(variant); }
ValueCtor(st, i, T, v, fail) ==
  UNION { UnwindCtor(emplace(s, i, T, ArgVal(v), fail), i) : s \in DefaultCtor(st, i) }

\* Mutant of CopyCtor: dispatches through s_MoveAssigns.
CopyCtor_Moves(st, i, j, fail) ==
  UNION { UnwindCtor(IF s_Valueless = s.idx[j] THEN {s}
                     ELSE DispatchAssign(s, s_MoveAssigns, i, j, fail), i)
          : s \in DefaultCtor(st, i) }

\* explicit Variant(Variant const& other) : Variant{}
CopyCtor(st, i, j, fail) ==
  UNION { UnwindCtor(IF s_Valueless = s.idx[j] THEN {s}
                     ELSE DispatchAssign(s, s_CopyAssigns, i, j, fail), i)
          : s \in DefaultCtor(st, i) }

\* explicit Variant(Variant&& other) noexcept : Variant{}
MoveCtor(st, i, j, fail) ==
  UNION { NoExcept(IF s_Valueless = s.idx[j] THEN {s}
                   ELSE {IF t.out = "ok" THEN [t EXCEPT !.idx[j] = s_Valueless] ELSE t :
                           t \in DispatchAssign(s, s_MoveAssigns, i, j, fail)})
          : s \in DefaultCtor(st, i) }

\* Mutant of AssignValueless: the current value is not destroyed.
AssignValueless_NoDestroy(st, i) ==
  {[st EXCEPT !.idx[i] = s_Valueless]}

\* The valueless-source branch of both assignment operators:
\* if (s_Valueless != m_Idx) s_Destructors[m_Idx](this); m_Idx = s_Valueless;
AssignValueless(st, i) ==
  {IF t.out = "ok" THEN [t EXCEPT !.idx[i] = s_Valueless] ELSE t :
     t \in (IF s_Valueless # st.idx[i]
            THEN DispatchDestructor(st, i) ELSE {st})}

\* Mutant of CopyAssign: the source is marked valueless, as a move does.
CopyAssign_ClearsSource(st, i, j, fail) ==
  IF s_Valueless = st.idx[j] THEN AssignValueless(st, i)
  ELSE {IF t.out = "ok" THEN [t EXCEPT !.idx[j] = s_Valueless] ELSE t :
          t \in DispatchAssign(st, s_CopyAssigns, i, j, fail)}

\* Variant& operator=(Variant const& other)
CopyAssign(st, i, j, fail) ==
  IF s_Valueless = st.idx[j] THEN AssignValueless(st, i)
  ELSE DispatchAssign(st, s_CopyAssigns, i, j, fail)

\* Mutant of MoveAssign: other.m_Idx = s_Valueless is missing.
MoveAssign_KeepsSource(st, i, j, fail) ==
  NoExcept(IF s_Valueless = st.idx[j] THEN AssignValueless(st, i)
           ELSE DispatchAssign(st, s_MoveAssigns, i, j, fail))

\* Variant& operator=(Variant&& other) noexcept
MoveAssign(st, i, j, fail) ==
  NoExcept(IF s_Valueless = st.idx[j] THEN AssignValueless(st, i)
           ELSE {IF t.out = "ok" THEN [t EXCEPT !.idx[j] = s_Valueless] ELSE t :
                   t \in DispatchAssign(st, s_MoveAssigns, i, j, fail)})

\* template <typename T> Variant& operator=(T&& rhs) noexcept
ValueAssign(st, i, T, v, fail) ==
  NoExcept(emplace(st, i, T, ArgVal(v), fail))

\* The object i goes out of scope: ~Variant(), then its storage is released.
EndOfLife(st, i) ==
  {IF t.out = "ok" THEN Release(t, i) ELSE t : t \in Destructor(st, i)}

\* The result of a call of a throwing accessor.
Access(st, g) ==
  [st EXCEPT !.out = g.out, !.ptr = g.ref, !.ret = Deref(st.raw, g.ref)]

\* The result of a call of a non-throwing pointer accessor.
Probe(st, p) == [st EXCEPT !.ptr = p, !.ret = Deref(st.raw, p)]

\* The result of a call of a non-throwing query returning a plain value.
Answer(st, r) == [st EXCEPT !.ret = r]

\* -------------------------------------------------------------- the calls
Call(op, i, j, T, v, s) ==
  [op |-> op, self |-> i, other |-> j, ty |-> T, v |-> v,
   out |-> s.out, ptr |-> s.ptr, ret |-> s.ret, ev |-> s.ev, tbl |-> s.tbl]

\* A metafunction applied to an argument list: fn names the template (or
\* "arguments" before any is instantiated), I and R are its leading
\* arguments where it has them, val is its value.
Meta(fn, list, I, R, val) == [fn |-> fn, list |-> list, I |-> I, R |-> R, val |-> val]
NoMeta == Meta("none", <<>>, 0, "none", 0)

\* No copy is being followed.
NoCopy == [src |-> 0, dst |-> 0, idx |-> 0, raw |-> NoObj]

\* The effect of a call that ended in working state s on the program.
\* copied remembers the source of the last copy, as it was before the copy,
\* for as long as the only calls since are emplace on the copy's target.
Commit(op, i, j, T, v, s, aliveAfter) ==
  /\ m_Idx' = s.idx
  /\ m_Raw' = s.raw
  /\ alive' = aliveAfter
  /\ terminated' = (s.out \in {"terminate", "crash"})
  /\ last' = Call(op, i, j, T, v, s)
  /\ copied' = IF op \in {"Variant(Variant const&)", "operator=(Variant const&)"} /\ i # j
               THEN [src |-> j, dst |-> i, idx |-> m_Idx[j], raw |-> m_Raw[j]]
               ELSE IF op = "emplace" /\ i = copied.dst THEN copied
               ELSE NoCopy
  /\ meta' = meta

Init ==
  /\ alive = [i \in Inst |-> FALSE]
  /\ m_Idx = [i \in Inst |-> s_Valueless]
  /\ m_Raw = [i \in Inst |-> NoObj]
  /\ terminated = FALSE
  /\ last = Call("none", 0, 0, "none", 0, St(m_Idx, m_Raw))
  /\ copied = NoCopy
  /\ meta = NoMeta

Cur == St(m_Idx, m_Raw)
Types == {Ts[k] : k \in 1..NTs}

DefaultConstruct(i) ==
  /\ ~terminated /\ ~alive[i]
  /\ \E s \in DefaultCtor(Cur, i) :
       Commit("Variant()", i, 0, "none", 0, s, [alive EXCEPT ![i] = TRUE])

ValueConstruct(i, T, v, fail) ==
  /\ ~terminated /\ ~alive[i]
  /\ \E s \in ValueCtor(Cur, i, T, v, fail) :
       Commit("Variant(T&&)", i, 0, T, v, s, [alive EXCEPT ![i] = (s.out = "ok")])

CopyConstruct(i, j, fail) ==
  /\ ~terminated /\ ~alive[i] /\ alive[j]
  /\ \E s \in CopyCtor(Cur, i, j, fail) :
       Commit("Variant(Variant const&)", i, j, "none", 0, s,
              [alive EXCEPT ![i] = (s.out = "ok")])

MoveConstruct(i, j, fail) ==
  /\ ~terminated /\ ~alive[i] /\ alive[j]
  /\ \E s \in MoveCtor(Cur, i, j, fail) :
       Commit("Variant(Variant&&)", i, j, "none", 0, s,
              [alive EXCEPT ![i] = (s.out = "ok")])

CallCopyAssign(i, j, fail) ==
  /\ ~terminated /\ alive[i] /\ alive[j]
  /\ \E s \in CopyAssign(Cur, i, j, fail) :
       Commit("operator=(Variant const&)", i, j, "none", 0, s, alive)

CallMoveAssign(i, j, fail) ==
  /\ ~terminated /\ alive[i] /\ alive[j]
  /\ \E s \in MoveAssign(Cur, i, j, fail) :
       Commit("operator=(Variant&&)", i, j, "none", 0, s, alive)

CallValueAssign(i, T, v, fail) ==
  /\ ~terminated /\ alive[i]
  /\ \E s \in ValueAssign(Cur, i, T, v, fail) :
       Commit("operator=(T&&)", i, 0, T, v, s, alive)

CallEmplace(i, T, v, fail) ==
  /\ ~terminated /\ alive[i]
  /\ \E s \in emplace(Cur, i, T, ArgVal(v), fail) :
       Commit("emplace", i, 0, T, v, s, alive)

Destruct(i) ==
  /\ ~terminated /\ alive[i]
  /\ \E s \in EndOfLife(Cur, i) :
       Commit("~Variant()", i, 0, "none", 0, s, [alive EXCEPT ![i] = FALSE])

CallGet(i, T) ==
  /\ ~terminated /\ alive[i]
  /\ Commit("get<T>", i, 0, T, 0, Access(Cur, get(m_Idx, i, T)), alive)

CallGetI(i, I) ==
  /\ ~terminated /\ alive[i]
  /\ Commit("get<I>", i, 0, IthType(I, Ts), I, Access(Cur, get_I(m_Idx, i, I)), alive)

CallGetIf(i, T) ==
  /\ ~terminated /\ alive[i]
  /\ Commit("get_if<T>", i, 0, T, 0, Probe(Cur, get_if(m_Idx, i, T)), alive)

CallGetIfI(i, I) ==
  /\ ~terminated /\ alive[i]
  /\ Commit("get_if<I>", i, 0, IthType(I, Ts), I, Probe(Cur, get_if_I(m_Idx, i, I)), alive)

CallHoldsAlternative(i, T) ==
  /\ ~terminated /\ alive[i]
  /\ Commit("holds_alternative", i, 0, T, 0, Answer(Cur, holds_alternative(m_Idx, i, T)), alive)

CallIndex(i) ==
  /\ ~terminated /\ alive[i]
  /\ Commit("index", i, 0, "none", 0, Answer(Cur, index(m_Idx, i)), alive)

CallValueless(i) ==
  /\ ~terminated /\ alive[i]
  /\ Commit("valueless", i, 0, "none", 0, Answer(Cur, valueless(m_Idx, i)), alive)

Next ==
  \/ \E i \in Inst : DefaultConstruct(i)
  \/ \E i \in Inst, T \in Types, v \in Values, fail \in BOOLEAN : ValueConstruct(i, T, v, fail)
  \/ \E i, j \in Inst, fail \in BOOLEAN : CopyConstruct(i, j, fail)
  \/ \E i, j \in Inst, fail \in BOOLEAN : MoveConstruct(i, j, fail)
  \/ \E i, j \in Inst, fail \in BOOLEAN : CallCopyAssign(i, j, fail)
  \/ \E i, j \in Inst, fail \in BOOLEAN : CallMoveAssign(i, j, fail)
  \/ \E i \in Inst, T \in Types, v \in Values, fail \in BOOLEAN : CallValueAssign(i, T, v, fail)
  \/ \E i \in Inst, T \in Types, v \in Values, fail \in BOOLEAN : CallEmplace(i, T, v, fail)
  \/ \E i \in Inst : Destruct(i)
  \/ \E i \in Inst, T \in Types : CallGet(i, T)
  \/ \E i \in Inst, I \in 0..(NTs - 1) : CallGetI(i, I)
  \/ \E i \in Inst, T \in Types : CallGetIf(i, T)
  \/ \E i \in Inst, I \in 0..(NTs - 1) : CallGetIfI(i, I)
  \/ \E i \in Inst, T \in Types : CallHoldsAlternative(i, T)
  \/ \E i \in Inst : CallIndex(i)
  \/ \E i \in Inst : CallValueless(i)

Spec == Init /\ [][Next]_vars

\* ------------------------------------------- the metafunctions, on sizes
\* The nonempty lists of at most MaxLen members of S.
Lists(S) == UNION {[1..n -> S] : n \in 1..MaxLen}

\* No Variant object exists; only templates are instantiated.
NoObjects ==
  /\ alive = [i \in Inst |-> FALSE]
  /\ m_Idx = [i \in Inst |-> s_Valueless]
  /\ m_Raw = [i \in Inst |-> NoObj]
  /\ terminated = FALSE
  /\ last = Call("none", 0, 0, "none", 0, St(m_Idx, m_Raw))
  /\ copied = NoCopy

\* sizeof(Ts)... for some alternative set.
InitSizes ==
  /\ NoObjects
  /\ \E sizes \in Lists(1..MaxSize) : meta = Meta("arguments", sizes, 0, "none", 0)

\* CTMM<size_t, sizeof(Ts)...> is instantiated for the buffer size.
Instantiate_s_RawSize ==
  /\ meta.fn = "arguments"
  /\ meta' = Meta("CTMM", meta.list, 0, "none", s_RawSize(meta.list))
  /\ UNCHANGED <<alive, m_Idx, m_Raw, terminated, last, copied>>

NextSizes == Instantiate_s_RawSize

SpecSizes == InitSizes /\ [][NextSizes]_vars

\* ------------------------------------------- the metafunctions, on types
\* The type names the argument lists are drawn from.
TypeNames == {"bool", "char", "int", "float"}

\* typename... Ts: any list of types, duplicates included.
InitTypes ==
  /\ NoObjects
  /\ \E list \in Lists(TypeNames) : meta = Meta("arguments", list, 0, "none", 0)

\* is_unique<Ts...>::value
Instantiate_is_unique ==
  /\ meta.fn = "arguments"
  /\ meta' = Meta("is_unique", meta.list, 0, "none", is_unique(meta.list))
  /\ UNCHANGED <<alive, m_Idx, m_Raw, terminated, last, copied>>

\* IthType<I, Ts...>::type, for I < sizeof...(Ts) (no template matches an
\* exhausted list).
Instantiate_IthType(I) ==
  /\ meta.fn = "arguments"
  /\ I < Len(meta.list)
  /\ meta' = Meta("IthType", meta.list, I, "none", IthType(I, meta.list))
  /\ UNCHANGED <<alive, m_Idx, m_Raw, terminated, last, copied>>

\* IFromType<0, R, Ts...>::value, for R in the list (enable_if).
Instantiate_IFromType(R) ==
  /\ meta.fn = "arguments"
  /\ is_any(R, meta.list)
  /\ meta' = Meta("IFromType", meta.list, 0, R, IFromType(0, R, meta.list))
  /\ UNCHANGED <<alive, m_Idx, m_Raw, terminated, last, copied>>

NextTypes ==
  \/ Instantiate_is_unique
  \/ \E I \in 0..(MaxLen - 1) : Instantiate_IthType(I)
  \/ \E R \in TypeNames : Instantiate_IFromType(R)

SpecTypes == InitTypes /\ [][NextTypes]_vars

\* ------------------------------------------------------------ properties
\* Object i holds a live value of the alternative its discriminant names.
HoldsLive(idx, raw, i) ==
  /\ idx[i] # s_Valueless
  /\ raw[i].live
  /\ raw[i].ty = IthType(idx[i], Ts)

\* The call made last ran the constructor of an alternative, which threw.
CtorFailed == \E k \in 1..Len(last.ev) : last.ev[k].e = "construct_fail"

\* C1: a Variant value-constructed from a value v of alternative T has
\* index() = index_of(T), holds_alternative<T>() true, and get<T>() returns
\* a value equal to v without raising.
C1_ValueConstruct ==
  (last.op = "Variant(T&&)" /\ last.out = "ok") =>
    LET i == last.self
        T == last.ty
        g == get(m_Idx, i, T)
    IN /\ alive[i]
       /\ index(m_Idx, i) = IFromType(0, T, Ts)
       /\ holds_alternative(m_Idx, i, T)
       /\ g.out = "ok"
       /\ Deref(m_Raw, g.ref) = Obj(T, last.v)

C1_Witness ==
  /\ last.op = "Variant(T&&)" /\ last.out = "ok"
  /\ last.ty = "double" /\ last.v = MaxVal
  /\ m_Idx[last.self] = 2

\* C2: moving an object a that holds alternative i with value v into
\* another object b (move construction, or move assignment whatever b held)
\* leaves b with discriminant i and value v, and a valueless with index()
\* equal to the sentinel.
C2_MoveTransfers ==
  [][ \A a, b \in Inst :
        ( /\ last'.op \in {"Variant(Variant&&)", "operator=(Variant&&)"}
          /\ last'.self = b /\ last'.other = a /\ a # b
          /\ last'.out = "ok"
          /\ HoldsLive(m_Idx, m_Raw, a) )
        => /\ m_Idx'[b] = m_Idx[a]
           /\ m_Raw'[b] = m_Raw[a]
           /\ valueless(m_Idx', a)
           /\ index(m_Idx', a) = s_Valueless ]_vars

C2_Witness ==
  /\ last.op = "operator=(Variant&&)" /\ last.out = "ok"
  /\ last.self # last.other
  /\ Len(last.ev) = 3
  /\ last.ev[1].e = "destroy" /\ last.ev[2].e = "read" /\ last.ev[3].e = "construct"
  /\ last.ev[1].ty # last.ev[3].ty
  /\ valueless(m_Idx, last.other)
  /\ HoldsLive(m_Idx, m_Raw, last.self)

\* C3: after copying an object a (valueless or active) into b, by copy
\* construction or copy assignment, the copy and any later emplace on b
\* leave the discriminant and the value of a as they were before the copy.
C3_CopyIndependence ==
  copied.src # 0 =>
    /\ m_Idx[copied.src] = copied.idx
    /\ m_Raw[copied.src] = copied.raw
    /\ alive[copied.src]

C3_Witness ==
  /\ copied.src # 0 /\ copied.idx # s_Valueless /\ copied.raw.live
  /\ last.op = "emplace" /\ last.self = copied.dst /\ last.out = "ok"
  /\ m_Idx[copied.dst] # copied.idx

\* C4: a default-constructed object is valueless: valueless() is true,
\* index() is the sentinel, get raises the access error for every
\* alternative and get_if returns null for every alternative.
C4_DefaultValueless ==
  last.op = "Variant()" =>
    LET i == last.self IN
    /\ alive[i]
    /\ valueless(m_Idx, i)
    /\ index(m_Idx, i) = s_Valueless
    /\ \A T \in Types :
         /\ get(m_Idx, i, T).out = "bad_variant_access"
         /\ get_if(m_Idx, i, T) = 0
    /\ \A I \in 0..(NTs - 1) :
         /\ get_I(m_Idx, i, I).out = "bad_variant_access"
         /\ get_if_I(m_Idx, i, I) = 0

C4_Witness ==
  /\ last.op = "Variant()" /\ last.out = "ok" /\ alive[last.self]
  /\ \E j \in Inst : j # last.self /\ HoldsLive(m_Idx, m_Raw, j)

\* C5: get<T>() / get<I>() returns the stored value when the discriminant
\* equals index_of(T) / I and raises the access error when it does not,
\* a valueless object included; the call changes neither the discriminant
\* nor the stored value.
C5_GetMatchesOrRaises ==
  [][ last'.op \in {"get<T>", "get<I>"} =>
        LET i == last'.self
            want == IF last'.op = "get<T>" THEN IFromType(0, last'.ty, Ts) ELSE last'.v
        IN /\ (m_Idx[i] = want) =>
                (last'.out = "ok" /\ last'.ptr = i /\ last'.ret = m_Raw[i])
           /\ (m_Idx[i] # want) =>
                (last'.out = "bad_variant_access" /\ last'.ptr = 0)
           /\ valueless(m_Idx, i) => last'.out = "bad_variant_access"
           /\ UNCHANGED <<m_Idx, m_Raw, alive, terminated>> ]_vars

C5_Witness ==
  /\ last.op = "get<I>" /\ last.out = "bad_variant_access"
  /\ HoldsLive(m_Idx, m_Raw, last.self)

\* C6: get_if<T>() and holds_alternative<T>() never raise, and for every
\* alternative T: get_if<T>() is non-null exactly when
\* holds_alternative<T>() is true, exactly when the discriminant equals
\* index_of(T), exactly when get<T>() does not raise.
C6_ProbesAgree ==
  /\ \A i \in Inst, k \in 1..NTs :
       LET T == Ts[k]
           match == (m_Idx[i] = k - 1)
       IN /\ (get_if(m_Idx, i, T) # 0) = match
          /\ (get_if_I(m_Idx, i, k - 1) # 0) = match
          /\ holds_alternative(m_Idx, i, T) = match
          /\ (get(m_Idx, i, T).out = "ok") = match
  /\ last.op \in {"get_if<T>", "get_if<I>", "holds_alternative"} => last.out = "ok"
  /\ last.op = "get_if<T>" =>
       (last.ptr # 0) = holds_alternative(m_Idx, last.self, last.ty)
  /\ last.op = "holds_alternative" =>
       last.ret = (get(m_Idx, last.self, last.ty).out = "ok")

C6_Witness ==
  /\ last.op = "get_if<T>" /\ last.ptr = last.self /\ last.ty = "string"
  /\ last.ret.live
  /\ \E j \in Inst : alive[j] /\ valueless(m_Idx, j)

\* C7: emplace<T> on an object whose active alternative is another type
\* destroys the old value exactly once, before the new T is constructed;
\* afterwards the discriminant is index_of(T) and the returned reference
\* names the new value.
C7_EmplaceDestroysOnceFirst ==
  [][ \A i \in Inst :
        ( /\ last'.op = "emplace" /\ last'.self = i
          /\ HoldsLive(m_Idx, m_Raw, i)
          /\ m_Idx[i] # IFromType(0, last'.ty, Ts) )
        => /\ Len(last'.ev) = 2
           /\ last'.ev[1] = Ev("destroy", i, IthType(m_Idx[i], Ts))
           /\ last'.ev[2] \in {Ev("construct", i, last'.ty), Ev("construct_fail", i, last'.ty)}
           /\ last'.out = "ok" =>
                /\ last'.ev[2].e = "construct"
                /\ m_Idx'[i] = IFromType(0, last'.ty, Ts)
                /\ m_Raw'[i] = Obj(last'.ty, last'.v)
                /\ last'.ptr = i
                /\ last'.ret = m_Raw'[i] ]_vars

C7_Witness ==
  /\ last.op = "emplace" /\ last.out = "ok"
  /\ Len(last.ev) = 2
  /\ last.ev[1].e = "destroy" /\ last.ev[2].e = "construct"
  /\ last.ev[1].ty # last.ev[2].ty
  /\ m_Raw[last.self] = Obj(last.ty, last.v)

\* C8: in every reachable state, an object whose discriminant is i (not
\* the sentinel) holds a live value of alternative i in its buffer, and an
\* object whose discriminant is the sentinel holds no live object.
C8_BufferInvariant ==
  \A i \in Inst :
    (alive[i] /\ ~terminated) =>
      IF m_Idx[i] # s_Valueless
      THEN m_Raw[i].live /\ m_Raw[i].ty = IthType(m_Idx[i], Ts)
      ELSE ~m_Raw[i].live

\* C9: when the construction of the replacement value fails during emplace
\* (or an assignment routed through it), the object is left valueless.
C9_FailureLeavesValueless ==
  ( /\ last.op \in {"emplace", "operator=(Variant const&)"}
    /\ last.out = "ctor_exception" )
  => valueless(m_Idx, last.self)

\* C10: a failure of an alternative's constructor reaches the caller of the
\* Variant operation, move construction, move assignment and value
\* assignment included: it is not turned into program termination.
C10_FailurePropagates ==
  ( /\ last.op \in {"Variant(Variant&&)", "operator=(Variant&&)", "operator=(T&&)"}
    /\ CtorFailed )
  => (last.out = "ctor_exception" /\ ~terminated)

\* Object i is a valueless object after the step and was not one before it.
BecomesValueless(i) ==
  /\ alive'[i] /\ valueless(m_Idx', i)
  /\ ~(alive[i] /\ valueless(m_Idx, i))

\* C11 (as stated): an object becomes valueless only as the source of a
\* move; no other operation produces a valueless object.  The interface has
\* no operation that clears an object.
C11_OnlyMoveOrClear ==
  [][ \A i \in Inst :
        BecomesValueless(i) =>
          /\ last'.op \in {"Variant(Variant&&)", "operator=(Variant&&)"}
          /\ last'.other = i ]_vars

\* C11 (amended): an object becomes valueless only by default construction,
\* as the source of a move, or as the target of a copy or move (construction
\* or assignment) whose source is valueless; no other operation produces a
\* valueless object.
C11_ValuelessOrigins ==
  [][ \A i \in Inst :
        BecomesValueless(i) =>
          \/ last'.op = "Variant()" /\ last'.self = i
          \/ /\ last'.op \in {"Variant(Variant&&)", "operator=(Variant&&)"}
             /\ last'.other = i
          \/ /\ last'.op \in {"Variant(Variant const&)", "Variant(Variant&&)",
                              "operator=(Variant const&)", "operator=(Variant&&)"}
             /\ last'.self = i
             /\ valueless(m_Idx, last'.other) ]_vars

C11_Witness ==
  /\ last.op = "operator=(Variant const&)" /\ last.out = "ok"
  /\ last.self # last.other
  /\ Len(last.ev) = 1 /\ last.ev[1].e = "destroy"
  /\ valueless(m_Idx, last.self) /\ valueless(m_Idx, last.other)
  /\ ~m_Raw[last.other].live

\* C12: from every state of a live object (valueless or holding any
\* alternative), value assignment from a value v of alternative T and
\* emplace<T>(v) have the same results: the same final discriminant and
\* buffer, the same destroy/construct events in the same order, and the same
\* outcome, also when the constructor of T throws.
C12_ValueAssignIsEmplace ==
  ~terminated =>
    \A i \in Inst, T \in Types, v \in Values, fail \in BOOLEAN :
      alive[i] => ValueAssign(Cur, i, T, v, fail) = emplace(Cur, i, T, ArgVal(v), fail)

\* The greatest and the least member of a nonempty list of numbers.
Greatest(list) == CHOOSE x \in {list[k] : k \in 1..Len(list)} : \A k \in 1..Len(list) : list[k] <= x
Least(list) == CHOOSE x \in {list[k] : k \in 1..Len(list)} : \A k \in 1..Len(list) : x <= list[k]

\* C13: for every nonempty list of sizes, a list of exactly one element
\* included, CTMM is defined, s_max is the greatest element and s_min the
\* least, so the buffer is at least as large as every alternative.
C13_CTMMOnNonemptyLists ==
  meta.fn = "CTMM" =>
    /\ meta.val.defined
    /\ meta.val.s_max = Greatest(meta.list)
    /\ meta.val.s_min = Least(meta.list)
    /\ \A k \in 1..Len(meta.list) : meta.list[k] <= meta.val.s_max

\* CTMM on the lists it is defined for (two values or more).
CTMMOnTwoOrMore ==
  (meta.fn = "CTMM" /\ Len(meta.list) >= 2) =>
    /\ meta.val.defined
    /\ meta.val.s_max = Greatest(meta.list)
    /\ meta.val.s_min = Least(meta.list)

\* The positions in the event list evs of the events of kind e.
EventsOf(evs, e) == {k \in 1..Len(evs) : evs[k].e = e}

\* C14: copy assignment b = a between two distinct objects, each valueless
\* or holding a live value.  If a is valueless, the value of b (if any) is
\* destroyed once and b becomes valueless.  Otherwise the value of b (if
\* any) is destroyed exactly once, before the new value is copy-constructed,
\* and when the call returns b has the discriminant of a and a value equal
\* to that of a.  In both cases a is unchanged.
C14_CopyAssign ==
  [][ \A a, b \in Inst :
        ( /\ last'.op = "operator=(Variant const&)"
          /\ last'.self = b /\ last'.other = a /\ a # b
          /\ valueless(m_Idx, a) \/ HoldsLive(m_Idx, m_Raw, a)
          /\ valueless(m_Idx, b) \/ HoldsLive(m_Idx, m_Raw, b) )
        => LET evs == last'.ev
               built == EventsOf(evs, "construct") \cup EventsOf(evs, "construct_fail")
           IN /\ EventsOf(evs, "destroy_dead") = {}
              /\ IF HoldsLive(m_Idx, m_Raw, b)
                 THEN /\ EventsOf(evs, "destroy") = {1}
                      /\ evs[1] = Ev("destroy", b, IthType(m_Idx[b], Ts))
                 ELSE EventsOf(evs, "destroy") = {}
              /\ IF valueless(m_Idx, a)
                 THEN /\ built = {}
                      /\ last'.out = "ok"
                      /\ valueless(m_Idx', b)
                 ELSE /\ built = {Len(evs)}
                      /\ evs[Len(evs)].inst = b
                      /\ evs[Len(evs)].ty = IthType(m_Idx[a], Ts)
                      /\ last'.out = "ok" =>
                           /\ m_Idx'[b] = m_Idx[a]
                           /\ m_Raw'[b] = m_Raw[a]
                           /\ HoldsLive(m_Idx', m_Raw', b)
              /\ m_Idx'[a] = m_Idx[a]
              /\ m_Raw'[a] = m_Raw[a] ]_vars

C14_Witness ==
  /\ last.op = "operator=(Variant const&)" /\ last.out = "ok"
  /\ last.self # last.other
  /\ Len(last.ev) = 3
  /\ last.ev[1].e = "destroy" /\ last.ev[2].e = "read" /\ last.ev[3].e = "construct"
  /\ last.ev[1].ty # last.ev[3].ty
  /\ HoldsLive(m_Idx, m_Raw, last.other)
  /\ m_Idx[last.self] = m_Idx[last.other]
  /\ m_Raw[last.self] = m_Raw[last.other]

\* C15: in every reachable state the discriminant of every object is the
\* sentinel or an index in [0, N), and the last call subscripted the
\* destroy, copy and move tables only with indexes in [0, N).
C15_DiscriminantInRange ==
  /\ \A i \in Inst : m_Idx[i] = s_Valueless \/ m_Idx[i] \in 0..(NTs - 1)
  /\ last.tbl \subseteq 0..(NTs - 1)

C15_Witness ==
  /\ last.op = "operator=(Variant&&)" /\ last.out = "ok"
  /\ last.self # last.other
  /\ last.tbl = {0, NTs - 1}
  /\ m_Idx[last.self] = NTs - 1
  /\ m_Idx[last.other] = s_Valueless

\* C16: the access error is raised only by the throwing get accessors: no
\* other call ends with it, and no call raises it internally, although
\* every destruction goes through get<T>() of the table row chosen by the
\* discriminant.
C16_AccessErrorOnlyFromGet ==
  /\ last.out = "bad_variant_access" => last.op \in {"get<T>", "get<I>"}
  /\ EventsOf(last.ev, "bad_variant_access") = {}

C16_Witness ==
  /\ last.op = "~Variant()" /\ last.out = "ok"
  /\ last.tbl = {1}
  /\ last.ev = <<Ev("destroy", last.self, "string")>>
  /\ ~alive[last.self]

\* No two entries of the list are the same.
Distinct(list) == \A a, b \in 1..Len(list) : a # b => list[a] # list[b]

\* C17: is_unique over a type list of any length >= 1 is true exactly when
\* no two entries of the list are the same type, wherever the two equal
\* entries are.
C17_IsUniqueIffDistinct ==
  meta.fn = "is_unique" => (meta.val = Distinct(meta.list))

C17_Witness ==
  /\ meta.fn = "is_unique" /\ meta.val = FALSE
  /\ Len(meta.list) = 4
  /\ meta.list[2] = meta.list[4]
  /\ Distinct(SubSeq(meta.list, 1, 3))

\* C18: over a list of N distinct types, IFromType<0, T, Ts...> is the
\* position of the first occurrence of T, lies in [0, N), and IthType takes
\* it back to T; IthType<I, Ts...> is the entry at position I and IFromType
\* takes it back to I, for every I < N.
C18_IndexAndTypeInverse ==
  Distinct(meta.list) =>
    LET N == Len(meta.list) IN
    /\ meta.fn = "IFromType" =>
         /\ meta.val \in 0..(N - 1)
         /\ meta.list[meta.val + 1] = meta.R
         /\ \A k \in 1..meta.val : meta.list[k] # meta.R
         /\ IthType(meta.val, meta.list) = meta.R
    /\ meta.fn = "IthType" =>
         /\ meta.val = meta.list[meta.I + 1]
         /\ IFromType(0, meta.val, meta.list) = meta.I

C18_Witness ==
  /\ meta.fn = "IFromType" /\ Distinct(meta.list)
  /\ Len(meta.list) = 4 /\ meta.val = 3
  /\ meta.R = "bool"

\* C19: every value constructed in a buffer has its destructor invoked
\* before its storage is reused or released, the moved-from value left in
\* the source of a move included: no call constructs over a live value or
\* ends the lifetime of an object whose buffer holds a live value (such a
\* value has had its destructor invoked zero times, and never will).
C19_EveryValueDestroyed ==
  EventsOf(last.ev, "overwrite") = {}

\* C20: a copy or move assignment whose source holds a live value never
\* reads the source after destroying it, self-assignment included; a self
\* copy-assignment that returns leaves the alternative and the value as
\* they were.
C20_SourceNotReadAfterDestroy ==
  [][ \A a, b \in Inst :
        ( /\ last'.op \in {"operator=(Variant const&)", "operator=(Variant&&)"}
          /\ last'.self = b /\ last'.other = a
          /\ HoldsLive(m_Idx, m_Raw, a) )
        => /\ EventsOf(last'.ev, "read_dead") = {}
           /\ (a = b /\ last'.op = "operator=(Variant const&)" /\ last'.out = "ok")
                => (m_Idx'[a] = m_Idx[a] /\ m_Raw'[a] = m_Raw[a]) ]_vars

====
